---------------------------- MODULE Spec2Model ----------------------------
(***************************************************************************)
(* Model of the e-puck2 driver node, epuck_ros2/epuck2_driver.py.          *)
(*                                                                         *)
(* The node is a single-threaded rclpy node: a timer runs step_callback,   *)
(* a subscription runs cmd_vel_callback and the parameter service runs     *)
(* on_param_changed, one callback at a time.  An exception raised by a     *)
(* callback leaves rclpy.spin and ends the process.                        *)
(*                                                                         *)
(* Numbers.  Python floats are modelled as exact rationals [n, d] in       *)
(* lowest terms: rounding is left out, everything else of the arithmetic   *)
(* is kept, a division by zero included.  Angles (encoder readings,        *)
(* heading) are counted in units of pi/24 rad, so that cos and sin are     *)
(* read from a table of the 48 grid directions, rounded to 1/1000; the     *)
(* odometry arithmetic is linear in that unit everywhere except in the     *)
(* arguments of cos and sin.                                               *)
(***************************************************************************)
EXTENDS Integers, Sequences, FiniteSets

\* ------------------------------------------------------------ rationals

Abs(x) == IF x < 0 THEN -x ELSE x

RECURSIVE GCD(_, _)
GCD(a, b) == IF b = 0 THEN a ELSE GCD(b, a % b)

\* n/d in lowest terms with a positive denominator (d # 0)
Rat(n, d) ==
    LET s == IF d < 0 THEN -1 ELSE 1
        g == GCD(Abs(n), Abs(d))
    IN  [n |-> (s * n) \div g, d |-> (s * d) \div g]

Whole(k) == [n |-> k, d |-> 1]
Zero == Whole(0)

RNeg(a) == [n |-> -a.n, d |-> a.d]

RAdd(a, b) ==
    LET g == GCD(a.d, b.d)
    IN  Rat(a.n * (b.d \div g) + b.n * (a.d \div g), (a.d \div g) * b.d)

RSub(a, b) == RAdd(a, RNeg(b))

RMul(a, b) ==
    LET g1 == GCD(Abs(a.n), b.d)
        g2 == GCD(Abs(b.n), a.d)
    IN  Rat((a.n \div g1) * (b.n \div g2), (a.d \div g2) * (b.d \div g1))

\* a / b, for b # 0 (the callers test for the division by zero)
RDiv(a, b) == RMul(a, Rat(b.d, b.n))

RLt(a, b) == a.n * b.d < b.n * a.d
RLe(a, b) == a.n * b.d <= b.n * a.d
IsZero(a) == a.n = 0

\* ------------------------------------------------------------ cos, sin

\* round(1000 * cos(k * pi/24)) for k = 0..12
CosMilli == <<1000, 991, 966, 924, 866, 793, 707, 609, 500, 383, 259, 131, 0>>

CosGrid(k) ==
    LET m == k % 48
    IN  IF m <= 12 THEN CosMilli[m + 1]
        ELSE IF m <= 24 THEN -CosMilli[24 - m + 1]
        ELSE IF m <= 36 THEN -CosMilli[m - 24 + 1]
        ELSE CosMilli[48 - m + 1]

\* math.cos, math.sin of an angle a given in units of pi/24; the angles of
\* the model lie on the grid (a.d = 1, see OnGrid)
cos(a) == Rat(CosGrid(a.n \div a.d), 1000)
sin(a) == Rat(CosGrid((a.n \div a.d) - 12), 1000)

\* ------------------------------------------------------------ calibration

table == <<
    <<Zero,         Whole(4095)>>,
    <<Rat(5, 1000), Rat(213333, 100)>>,
    <<Rat(1, 100),  Rat(146573, 100)>>,
    <<Rat(15, 1000), Rat(60146, 100)>>,
    <<Rat(2, 100),  Rat(38384, 100)>>,
    <<Rat(3, 100),  Rat(23493, 100)>>,
    <<Rat(4, 100),  Rat(15803, 100)>>
>>

interpolate_from_upper(i, p_x) ==
    LET b_x == table[i][2]
        b_y == table[i][1]
        a_x == table[i + 1][2]
        a_y == table[i + 1][1]
    IN  RAdd(RMul(RDiv(RSub(b_y, a_y), RSub(b_x, a_x)), RSub(p_x, a_x)), b_y)

\* the body of the loop for the pair (i, i+1), 1-based
interpolate(i, p_x) ==
    LET b_x == table[i][2]
        b_y == table[i][1]
        a_x == table[i + 1][2]
        a_y == table[i + 1][1]
    IN  RAdd(RMul(RDiv(RSub(b_y, a_y), RSub(b_x, a_x)), RSub(p_x, a_x)), a_y)

\* the pairs whose condition holds with a strict upper end
brackets_strict(p_x) ==
    {i \in 1..(Len(table) - 1) :
        RLt(p_x, table[i][2]) /\ RLt(table[i + 1][2], p_x)}

\* the pairs (i, i+1) with table[i][1] >= p_x and table[i+1][1] < p_x
brackets(p_x) ==
    {i \in 1..(Len(table) - 1) :
        RLe(p_x, table[i][2]) /\ RLt(table[i + 1][2], p_x)}

intensity_to_distance(p_x) ==
    LET hits == brackets(p_x)
    IN  IF hits = {} THEN Zero
        ELSE interpolate(CHOOSE i \in hits : \A j \in hits : i <= j, p_x)

\* ------------------------------------------------------------ constants

\* declare_parameter("timestep", 64): milliseconds.  self.timestep keeps the
\* Parameter object returned at declaration, so its value never changes.
Timestep == 64
encoder_period_s == Rat(Timestep, 1000)

DefaultWheelDistance == Rat(552, 10000)
DefaultWheelRadius == Rat(21, 1000)
distance_from_center == Rat(35, 1000)

\* ------------------------------------------------------------ inputs

\* number of callbacks a behaviour of the model runs
MaxSteps == 4

\* One encoder step of the model, in units of pi/24: 368/35 turns the
\* heading by 4 grid units at the default radius and distance, so that the
\* half steps of the integrator stay on the grid for every radius and
\* distance below.
EncoderUnit == Rat(368, 35)
Reading(k) == RMul(Whole(k), EncoderUnit)

\* encoder readings (left, right) when the node is constructed
InitialReadings == {<<0, 0>>, <<2, 1>>}
\* what robot.step adds to the encoders (left, right) in one tick: rest,
\* straight line, turn on the spot, arc
Motions == {<<0, 0>>, <<1, 1>>, <<1, -1>>, <<1, 0>>}

Param(name, value) == [name |-> name, value |-> value]
\* the lists a set_parameters request hands to the callback
ParamLists ==
    {<<Param("wheel_radius", Rat(42, 1000))>>,
     <<Param("wheel_radius", Zero)>>,
     <<Param("wheel_radius", Rat(-21, 1000))>>,
     <<Param("wheel_distance", Rat(1104, 10000))>>,
     <<Param("wheel_distance", Zero)>>,
     <<Param("timestep", Whole(32))>>,
     <<Param("wheel_radius", Zero), Param("wheel_radius", DefaultWheelRadius)>>,
     <<Param("wheel_distance", DefaultWheelDistance),
       Param("wheel_radius", Rat(42, 1000))>>,
     <<Param("wheel_radius", DefaultWheelRadius), Param("timestep", Whole(32))>>}

Twist(linear_x, angular_z) == [linear_x |-> linear_x, angular_z |-> angular_z]
Twists == {Twist(Zero, Zero), Twist(Whole(1), Zero), Twist(Rat(1, 10), Whole(-2))}

Channels == {"ps0", "ps1", "ps2", "ps3", "ps4", "ps5", "ps6", "ps7", "tof"}

Centi(k) == Rat(k, 100)
SceneZero == [c \in Channels |-> Zero]
SceneBreakpoints ==
    [ps0 |-> table[1][2], ps1 |-> table[2][2], ps2 |-> table[3][2],
     ps3 |-> table[4][2], ps4 |-> table[5][2], ps5 |-> table[6][2],
     ps6 |-> table[7][2], ps7 |-> Whole(5000), tof |-> Rat(1, 2)]
SceneInterior ==
    [ps0 |-> Whole(3000), ps1 |-> Whole(1800), ps2 |-> Whole(1000),
     ps3 |-> Whole(500), ps4 |-> Whole(300), ps5 |-> Whole(200),
     ps6 |-> Centi(15804), ps7 |-> Centi(15802), tof |-> Whole(2)]
SceneEdges ==
    [ps0 |-> Centi(409501), ps1 |-> Whole(50), ps2 |-> Zero,
     ps3 |-> Centi(409499), ps4 |-> Centi(213334), ps5 |-> Centi(213332),
     ps6 |-> Centi(23494), ps7 |-> Whole(100), tof |-> table[7][2]]
\* what the nine sensors return after a robot.step
Scenes == {SceneZero, SceneBreakpoints, SceneInterior, SceneEdges}
\* the scenes met while the robot is driven and reconfigured
DriveScenes == {SceneZero, SceneInterior}

\* ------------------------------------------------------------ state

VARIABLES
    wheel_radius, wheel_distance,        \* self.wheel_radius, self.wheel_distance
    left_motor, right_motor,             \* velocity targets of the two motors
    prev_left_wheel_ticks, prev_right_wheel_ticks,
    prev_position, prev_angle,
    left_wheel_sensor, right_wheel_sensor, \* encoder readings (simulator)
    sensors,                             \* raw values of the nine sensors
    odom_msg, range_msgs, scan_msg,      \* last messages published
    result,                              \* <<successful>> of the last
                                         \* SetParametersResult, <<>> before
    alive,                               \* rclpy.spin is running
    nsteps,                              \* callbacks run so far
    last_op,                             \* history: the callback that ran last
    origin_age,                          \* history: ticks integrated since the
                                         \* last reset_odometry (0, 1, 2 = more)
    reset_by,                            \* history: who called reset_odometry
    last_cmd                             \* history: <<the last Twist handled,
                                         \* with the radius and distance it
                                         \* was handled under>>, <<>> before

odometry == <<prev_left_wheel_ticks, prev_right_wheel_ticks, prev_position,
              prev_angle>>
motors == <<left_motor, right_motor>>
calibration == <<wheel_radius, wheel_distance>>
simulator == <<left_wheel_sensor, right_wheel_sensor, sensors>>
published == <<odom_msg, range_msgs, scan_msg>>
history == <<last_op, origin_age, reset_by, last_cmd>>
vars == <<calibration, motors, odometry, simulator, published, result, alive,
          nsteps, history>>

None == "none"

Init ==
    /\ wheel_radius = DefaultWheelRadius
    /\ wheel_distance = DefaultWheelDistance
    /\ left_motor = Zero
    /\ right_motor = Zero
    /\ prev_left_wheel_ticks = Zero
    /\ prev_right_wheel_ticks = Zero
    /\ prev_position = <<Zero, Zero>>
    /\ prev_angle = Zero
    /\ \E e \in InitialReadings :
        /\ left_wheel_sensor = Reading(e[1])
        /\ right_wheel_sensor = Reading(e[2])
    /\ sensors = SceneZero
    /\ odom_msg = None
    /\ range_msgs = None
    /\ scan_msg = None
    /\ result = <<>>
    /\ alive = TRUE
    /\ nsteps = 0
    /\ last_op = "__init__"
    /\ origin_age = 0
    /\ reset_by = "__init__"
    /\ last_cmd = <<>>

\* ------------------------------------------------------------ parameters

\* the attributes on_param_changed reads and writes
self_now ==
    [wheel_radius |-> wheel_radius, wheel_distance |-> wheel_distance,
     prev_left_wheel_ticks |-> prev_left_wheel_ticks,
     prev_right_wheel_ticks |-> prev_right_wheel_ticks,
     prev_position |-> prev_position, prev_angle |-> prev_angle]

reset_pose_only(self) ==
    [self EXCEPT !.prev_position = <<Zero, Zero>>, !.prev_angle = Zero]

reset_odometry(self) ==
    [self EXCEPT !.prev_left_wheel_ticks = Zero,
                 !.prev_right_wheel_ticks = Zero,
                 !.prev_position = <<Zero, Zero>>,
                 !.prev_angle = Zero]

\* one round of the loop of on_param_changed
set_param(self, param) ==
    IF param.name = "wheel_radius"
    THEN [reset_odometry(self) EXCEPT !.wheel_radius = param.value]
    ELSE IF param.name = "wheel_distance"
    THEN [reset_odometry(self) EXCEPT !.wheel_distance = param.value]
    ELSE self

RECURSIVE set_params(_, _)
set_params(self, params) ==
    IF params = <<>> THEN self
    ELSE set_params(set_param(self, Head(params)), Tail(params))

CalibrationNames == {"wheel_radius", "wheel_distance"}
NamesCalibration(params) ==
    \E i \in 1..Len(params) : params[i].name \in CalibrationNames

on_param_changed(params) ==
    /\ alive
    /\ nsteps < MaxSteps
    /\ nsteps' = nsteps + 1
    /\ \E self \in {set_params(self_now, params)} :
           /\ wheel_radius' = self.wheel_radius
           /\ wheel_distance' = self.wheel_distance
           /\ prev_left_wheel_ticks' = self.prev_left_wheel_ticks
           /\ prev_right_wheel_ticks' = self.prev_right_wheel_ticks
           /\ prev_position' = self.prev_position
           /\ prev_angle' = self.prev_angle
    /\ result' = <<TRUE>>
    /\ last_op' = "on_param_changed"
    /\ IF NamesCalibration(params)
       THEN origin_age' = 0 /\ reset_by' = "on_param_changed"
       ELSE UNCHANGED <<origin_age, reset_by>>
    /\ UNCHANGED <<motors, simulator, published, alive, last_cmd>>

\* ------------------------------------------------------------ velocity command

wheel_velocities_halved(twist, r, L) ==
    [left  |-> RDiv(RSub(twist.linear_x, RMul(twist.angular_z, L)),
                    RMul(Whole(2), r)),
     right |-> RDiv(RAdd(twist.linear_x, RMul(twist.angular_z, L)),
                    RMul(Whole(2), r))]

\* left_velocity, right_velocity of cmd_vel_callback, for r # 0
wheel_velocities(twist, r, L) ==
    [left  |-> RDiv(RSub(RMul(Whole(2), twist.linear_x),
                         RMul(twist.angular_z, L)),
                    RMul(Whole(2), r)),
     right |-> RDiv(RAdd(RMul(Whole(2), twist.linear_x),
                         RMul(twist.angular_z, L)),
                    RMul(Whole(2), r))]

cmd_vel_callback(twist) ==
    /\ alive
    /\ nsteps < MaxSteps
    /\ nsteps' = nsteps + 1
    /\ IF IsZero(RMul(Whole(2), wheel_radius))
       THEN \* ZeroDivisionError before any setVelocity
            /\ alive' = FALSE
            /\ last_op' = "cmd_vel_callback raised"
            /\ UNCHANGED <<motors, last_cmd>>
       ELSE \E w \in {wheel_velocities(twist, wheel_radius, wheel_distance)} :
                /\ left_motor' = w.left
                /\ right_motor' = w.right
                /\ last_op' = "cmd_vel_callback"
                /\ last_cmd' = <<[twist |-> twist,
                                  wheel_radius |-> wheel_radius,
                                  wheel_distance |-> wheel_distance]>>
                /\ UNCHANGED alive
    /\ UNCHANGED <<calibration, odometry, simulator, published, result,
                   origin_age, reset_by>>

\* ------------------------------------------------------------ odometry

\* v and omega of odometry_callback, for wheel_distance # 0
body_velocity(left_wheel_ticks, right_wheel_ticks, prev_left, prev_right, r, L) ==
    LET v_left_rad == RDiv(RSub(left_wheel_ticks, prev_left), encoder_period_s)
        v_right_rad == RDiv(RSub(right_wheel_ticks, prev_right), encoder_period_s)
        v_left == RMul(v_left_rad, r)
        v_right == RMul(v_right_rad, r)
    IN  [v |-> RDiv(RAdd(v_left, v_right), Whole(2)),
         omega |-> RDiv(RSub(v_right, v_left), L)]

Half(a) == RDiv(a, Whole(2))
Twice(a) == RMul(Whole(2), a)
Sixth(a) == RDiv(a, Whole(6))

runge_kutta_light_angle(position, angle, v, omega) ==
    LET k02 == omega
        k12 == omega
        k22 == omega
    IN  [position |-> position,
         angle |-> RAdd(angle, RMul(Sixth(encoder_period_s),
                                    RAdd(k02, Twice(RAdd(k12, k22)))))]

\* position and angle of odometry_callback
runge_kutta(position, angle, v, omega) ==
    LET k00 == RMul(v, cos(angle))
        k01 == RMul(v, sin(angle))
        k02 == omega
        k10 == RMul(v, cos(RAdd(angle, Half(RMul(encoder_period_s, k02)))))
        k11 == RMul(v, sin(RAdd(angle, Half(RMul(encoder_period_s, k02)))))
        k12 == omega
        k20 == RMul(v, cos(RAdd(angle, Half(RMul(encoder_period_s, k12)))))
        k21 == RMul(v, sin(RAdd(angle, Half(RMul(encoder_period_s, k12)))))
        k22 == omega
        k30 == RMul(v, cos(RAdd(angle, Half(RMul(encoder_period_s, k22)))))
        k31 == RMul(v, sin(RAdd(angle, Half(RMul(encoder_period_s, k22)))))
        k32 == omega
    IN  [position |->
            <<RAdd(position[1], RMul(Sixth(encoder_period_s),
                        RAdd(RAdd(k00, Twice(RAdd(k10, k20))), k30))),
              RAdd(position[2], RMul(Sixth(encoder_period_s),
                        RAdd(RAdd(k01, Twice(RAdd(k11, k21))), k31)))>>,
         angle |-> RAdd(angle, RMul(Sixth(encoder_period_s),
                        RAdd(RAdd(k02, Twice(RAdd(k12, k22))), k32)))]

\* ------------------------------------------------------------ ranges, scan

\* msg.range of the Range message of each sensor, the tof sensor included
ranges_of(values) == [c \in Channels |-> intensity_to_distance(values[c])]

\* msg.ranges as first assembled, 0 degrees to 360 degrees
scan_ranges(values) ==
    <<values["tof"],
      intensity_to_distance(values["ps7"]),
      Zero,
      intensity_to_distance(values["ps6"]),
      Zero,
      Zero,
      intensity_to_distance(values["ps5"]),
      Zero,
      Zero,
      Zero,
      intensity_to_distance(values["ps4"]),
      Zero,
      Zero,
      Zero,
      intensity_to_distance(values["ps3"]),
      Zero,
      Zero,
      Zero,
      intensity_to_distance(values["ps2"]),
      Zero,
      Zero,
      intensity_to_distance(values["ps1"]),
      Zero,
      intensity_to_distance(values["ps0"]),
      values["tof"]>>

add_offset_always(ranges) ==
    [i \in 1..Len(ranges) |-> RAdd(ranges[i], distance_from_center)]

\* the loop over msg.ranges that ends distance_callback
add_center_offset(ranges) ==
    [i \in 1..Len(ranges) |->
        IF ~IsZero(ranges[i]) THEN RAdd(ranges[i], distance_from_center)
        ELSE ranges[i]]

\* what distance_callback publishes, tabulated over the scenes
distance_messages ==
    [values \in Scenes |->
        [range_msgs |-> ranges_of(values),
         scan_msg |-> add_center_offset(scan_ranges(values))]]

distance_callback(values) == distance_messages[values]

\* ------------------------------------------------------------ tick

\* step_callback: robot.step, odometry_callback, distance_callback,
\* publish_static_transforms (a fixed transform, not kept in the state).
\* Time stamps are left out.
step_callback(motion, scene) ==
    /\ alive
    /\ nsteps < MaxSteps
    /\ nsteps' = nsteps + 1
    \* robot.step
    /\ left_wheel_sensor' = RAdd(left_wheel_sensor, Reading(motion[1]))
    /\ right_wheel_sensor' = RAdd(right_wheel_sensor, Reading(motion[2]))
    /\ sensors' = scene
    /\ IF IsZero(wheel_distance)
       THEN \* ZeroDivisionError in odometry_callback, before any assignment
            /\ alive' = FALSE
            /\ last_op' = "step_callback raised"
            /\ UNCHANGED <<odometry, published, origin_age>>
       ELSE \* (a singleton set binds a value that is computed once)
            \E b \in {body_velocity(left_wheel_sensor', right_wheel_sensor',
                        prev_left_wheel_ticks, prev_right_wheel_ticks,
                        wheel_radius, wheel_distance)} :
            \E k \in {runge_kutta(prev_position, prev_angle, b.v, b.omega)} :
                /\ prev_position' = k.position
                /\ prev_angle' = k.angle
                /\ prev_left_wheel_ticks' = left_wheel_sensor'
                /\ prev_right_wheel_ticks' = right_wheel_sensor'
                /\ odom_msg' = [linear_x |-> b.v, linear_z |-> b.omega,
                                x |-> k.position[1], y |-> k.position[2],
                                \* the yaw handed to euler_to_quaternion
                                yaw |-> k.angle]
                /\ range_msgs' = distance_callback(sensors').range_msgs
                /\ scan_msg' = distance_callback(sensors').scan_msg
                /\ last_op' = "step_callback"
                /\ origin_age' = IF origin_age = 0 THEN 1 ELSE 2
                /\ UNCHANGED alive
    /\ UNCHANGED <<calibration, motors, result, reset_by, last_cmd>>

\* ------------------------------------------------------------ specification

ParamChange == \E params \in ParamLists : on_param_changed(params)
Command == \E twist \in Twists : cmd_vel_callback(twist)
Tick == \E motion \in Motions, scene \in DriveScenes :
            step_callback(motion, scene)

Next == ParamChange \/ Command \/ Tick

Spec == Init /\ [][Next]_vars

\* the node left alone: ticks only, over every scene
SensorTick == \E motion \in Motions, scene \in Scenes :
                  step_callback(motion, scene)

SpecSensors == Init /\ [][SensorTick]_vars

\* every angle handed to cos and sin lies on the grid
OnGrid == prev_angle.d = 1

\* ------------------------------------------------------------ claims

Ticked == last_op = "step_callback"
Last == Len(table)

\* C3 as stated: at every breakpoint of the table, the breakpoint's intensity
\* is converted to the breakpoint's distance.
C3_EveryBreakpointExact ==
    Ticked =>
        \A c \in Channels, i \in 1..Last :
            sensors[c] = table[i][2] => range_msgs[c] = table[i][1]

\* C3, amended: at every breakpoint but the last the breakpoint's intensity is
\* converted to the breakpoint's distance; the last breakpoint's intensity
\* (158.03) is converted to 0.0, not to 0.04.
C3_BreakpointsButLast ==
    Ticked =>
        \A c \in Channels, i \in 1..Last :
            sensors[c] = table[i][2] =>
                range_msgs[c] = IF i < Last THEN table[i][1] ELSE Zero

C3_Witness ==
    /\ Ticked
    /\ \A i \in 1..Last : \E c \in Channels : sensors[c] = table[i][2]
    /\ range_msgs["ps1"] = Rat(5, 1000)
    /\ range_msgs["ps6"] = Zero

\* the line through (a_x, a_y) and (b_x, b_y) of the pair (i, i+1), at p
TwoPoint(i, p) ==
    RAdd(table[i + 1][1],
         RDiv(RMul(RSub(table[i][1], table[i + 1][1]), RSub(p, table[i + 1][2])),
              RSub(table[i][2], table[i + 1][2])))

\* C4: an intensity above the first breakpoint or below the last one is
\* converted to 0.0; an intensity inside a bracket is converted to the
\* two-point interpolation of the bracket's ends, which lies between their
\* distances.
C4_SaturationAndInterpolation ==
    Ticked =>
        \A c \in Channels :
            /\ (RLt(table[1][2], sensors[c]) \/ RLt(sensors[c], table[Last][2]))
                    => range_msgs[c] = Zero
            /\ \A i \in 1..(Last - 1) :
                    (RLe(sensors[c], table[i][2]) /\ RLt(table[i + 1][2], sensors[c]))
                        => /\ range_msgs[c] = TwoPoint(i, sensors[c])
                           /\ RLe(table[i][1], range_msgs[c])
                           /\ RLe(range_msgs[c], table[i + 1][1])

C4_Witness ==
    /\ Ticked
    /\ \E c \in Channels : RLt(table[1][2], sensors[c])
    /\ \E c \in Channels : RLt(sensors[c], table[Last][2]) /\ ~IsZero(sensors[c])
    /\ \E c \in Channels :
            /\ RLt(sensors[c], table[2][2]) /\ RLt(table[3][2], sensors[c])
            /\ RLt(table[2][1], range_msgs[c]) /\ RLt(range_msgs[c], table[3][1])

\* the sensor behind slot i (0..24) of the scan, None for an empty slot
SlotSource(i) ==
    CASE i \in {0, 24} -> "tof"
      [] i = 1 -> "ps7"
      [] i = 3 -> "ps6"
      [] i = 6 -> "ps5"
      [] i = 10 -> "ps4"
      [] i = 14 -> "ps3"
      [] i = 18 -> "ps2"
      [] i = 21 -> "ps1"
      [] i = 23 -> "ps0"
      [] OTHER -> None

PreOffset(i) ==
    IF SlotSource(i) = None THEN Zero
    ELSE IF SlotSource(i) = "tof" THEN sensors["tof"]
    ELSE intensity_to_distance(sensors[SlotSource(i)])

\* C7: the scan has 25 entries; entry i is 0.0 where its value before the
\* offset is 0.0 and that value + 0.035 elsewhere; the value before the
\* offset is the raw tof reading in slots 0 and 24, the calibrated reading of
\* ps7, ps6, ps5, ps4, ps3, ps2, ps1, ps0 in slots 1, 3, 6, 10, 14, 18, 21, 23
\* and 0.0 in the other slots; with every raw reading 0 the scan is all 0.0.
C7_ScanLayout ==
    Ticked =>
        /\ Len(scan_msg) = 25
        /\ \A i \in 0..24 :
                scan_msg[i + 1] =
                    IF IsZero(PreOffset(i)) THEN Zero
                    ELSE RAdd(PreOffset(i), Rat(35, 1000))
        /\ (\A c \in Channels : IsZero(sensors[c]))
                => \A i \in 1..25 : scan_msg[i] = Zero

C7_Witness ==
    /\ Ticked
    /\ sensors = SceneEdges
    /\ scan_msg[1] = RAdd(table[Last][2], Rat(35, 1000))
    /\ scan_msg[25] = scan_msg[1]
    /\ range_msgs["tof"] = Zero
    /\ scan_msg[2] = Zero /\ scan_msg[3] = Zero
    /\ RLt(Rat(35, 1000), scan_msg[4])

\* (2*v - w*L)/(2*r) and (2*v + w*L)/(2*r), as v/r -+ w*L/(2*r)
ClaimedTargets(twist, r, L) ==
    [left  |-> RSub(RDiv(twist.linear_x, r),
                    RDiv(RMul(twist.angular_z, L), Twice(r))),
     right |-> RAdd(RDiv(twist.linear_x, r),
                    RDiv(RMul(twist.angular_z, L), Twice(r)))]

\* C5: after cmd_vel_callback has handled (v, w) under a radius r > 0 and a
\* distance L, the targets are (2v - wL)/(2r) and (2v + wL)/(2r), unclamped;
\* (0, 0) gives 0 and 0, and w = 0 gives v/r twice.
C5_WheelTargets ==
    (last_op = "cmd_vel_callback" /\ RLt(Zero, wheel_radius)) =>
        LET twist == last_cmd[1].twist
            claimed == ClaimedTargets(twist, wheel_radius, wheel_distance)
        IN  /\ left_motor = claimed.left
            /\ right_motor = claimed.right
            /\ (IsZero(twist.linear_x) /\ IsZero(twist.angular_z))
                    => (left_motor = Zero /\ right_motor = Zero)
            /\ IsZero(twist.angular_z)
                    => /\ left_motor = RDiv(twist.linear_x, wheel_radius)
                       /\ right_motor = RDiv(twist.linear_x, wheel_radius)

\* a command with a turn, handled under a positive radius, beyond the
\* motors' 6.28 rad/s
C5_Witness ==
    /\ last_op = "cmd_vel_callback"
    /\ RLt(Zero, wheel_radius)
    /\ ~IsZero(last_cmd[1].twist.angular_z)
    /\ RLt(right_motor, left_motor)
    /\ RLt(Whole(7), left_motor)

\* C8, second half: the targets are those computed from the command handled
\* last, under the radius and distance of that moment (0 and 0 before any).
LatestCommandWins ==
    IF last_cmd = <<>> THEN left_motor = Zero /\ right_motor = Zero
    ELSE LET claimed == ClaimedTargets(last_cmd[1].twist,
                            last_cmd[1].wheel_radius, last_cmd[1].wheel_distance)
         IN  left_motor = claimed.left /\ right_motor = claimed.right

CommandRan == last_op' \in {"cmd_vel_callback", "cmd_vel_callback raised"}
TickRan == last_op' \in {"step_callback", "step_callback raised"}

\* C8: cmd_vel_callback changes nothing but the two targets (not the stored
\* ticks, the pose, the radius or the distance), a tick leaves the targets
\* alone, and the targets are always those of the command handled last.
C8_FrameOfCommandAndTick ==
    /\ []LatestCommandWins
    /\ [][/\ CommandRan => UNCHANGED <<odometry, calibration, simulator, published>>
          /\ TickRan => UNCHANGED motors]_vars

\* a command, then a change of radius, then a tick: the targets are still
\* those of the command
C8_Witness ==
    /\ last_op = "step_callback"
    /\ last_cmd # <<>>
    /\ last_cmd[1].wheel_radius # wheel_radius
    /\ ~IsZero(left_motor)
    /\ origin_age = 1

\* C2 as stated: a non-positive wheel_radius is not reported as successfully
\* set, and no callback runs with wheel_radius <= 0.
C2_NonPositiveRadiusRejected ==
    /\ (last_op = "on_param_changed" /\ ~RLt(Zero, wheel_radius))
            => result # <<TRUE>>
    /\ last_op \in {"cmd_vel_callback", "cmd_vel_callback raised",
                    "step_callback", "step_callback raised"}
            => RLt(Zero, wheel_radius)

TickDone == last_op' = "step_callback" /\ nsteps' # nsteps

Origin == <<Zero, Zero>>

\* C6: every tick adds dt*w to the heading, w = (v_right - v_left) /
\* wheel_distance, without wrapping; a tick whose encoder deltas are opposite
\* (v = 0) leaves the position where it was, whatever the heading.
C6_HeadingAndPureRotation ==
    [][TickDone =>
        LET dl == RSub(left_wheel_sensor', prev_left_wheel_ticks)
            dr == RSub(right_wheel_sensor', prev_right_wheel_ticks)
            v_left == RMul(RDiv(dl, encoder_period_s), wheel_radius)
            v_right == RMul(RDiv(dr, encoder_period_s), wheel_radius)
            w == RDiv(RSub(v_right, v_left), wheel_distance)
        IN  /\ prev_angle' = RAdd(prev_angle, RMul(encoder_period_s, w))
            /\ dl = RNeg(dr) => prev_position' = prev_position]_vars

\* a turn on the spot away from the origin, ending beyond half a turn
\* (24 units of pi/24)
C6_Witness ==
    /\ last_op = "step_callback"
    /\ IsZero(odom_msg.linear_x)
    /\ ~IsZero(odom_msg.linear_z)
    /\ prev_position # Origin
    /\ ~IsZero(prev_position[2])
    /\ RLt(prev_angle, Whole(-24))

\* C9 as stated: the four samples of each tick are taken at the headings
\* theta, theta + dt*w/2, theta + dt*w/2 and theta + dt*w, and weighted 1-2-2-1.
C9_FourthStageAtFullStep ==
    [][TickDone =>
        LET v == odom_msg'.linear_x
            w == odom_msg'.linear_z
            half == RAdd(prev_angle, Half(RMul(encoder_period_s, w)))
            full == RAdd(prev_angle, RMul(encoder_period_s, w))
            kx == RAdd(RAdd(RMul(v, cos(prev_angle)),
                            RAdd(Twice(RMul(v, cos(half))), Twice(RMul(v, cos(half))))),
                       RMul(v, cos(full)))
            ky == RAdd(RAdd(RMul(v, sin(prev_angle)),
                            RAdd(Twice(RMul(v, sin(half))), Twice(RMul(v, sin(half))))),
                       RMul(v, sin(full)))
        IN  prev_position' =
                <<RAdd(prev_position[1], RMul(Sixth(encoder_period_s), kx)),
                  RAdd(prev_position[2], RMul(Sixth(encoder_period_s), ky))>>]_vars

Named(params, name) == \E i \in 1..Len(params) : params[i].name = name
LastValue(params, name) ==
    LET at == {i \in 1..Len(params) : params[i].name = name}
    IN  params[CHOOSE i \in at : \A j \in at : j <= i].value

\* C1: a parameter change that names wheel_radius or wheel_distance leaves
\* the stored ticks 0, the position (0, 0) and the heading 0 and puts the new
\* value in place; the next tick integrates from that state with that value.
C1_ResetOnCalibrationChange ==
    [][/\ \A params \in ParamLists :
            (NamesCalibration(params) /\ on_param_changed(params)) =>
                /\ prev_left_wheel_ticks' = Zero
                /\ prev_right_wheel_ticks' = Zero
                /\ prev_position' = Origin
                /\ prev_angle' = Zero
                /\ Named(params, "wheel_radius")
                        => wheel_radius' = LastValue(params, "wheel_radius")
                /\ Named(params, "wheel_distance")
                        => wheel_distance' = LastValue(params, "wheel_distance")
       /\ (origin_age = 0 /\ reset_by = "on_param_changed" /\ TickRan) =>
            IF IsZero(wheel_distance)
            THEN last_op' = "step_callback raised" /\ UNCHANGED odometry
            ELSE \E b \in {body_velocity(left_wheel_sensor', right_wheel_sensor',
                                Zero, Zero, wheel_radius, wheel_distance)} :
                 \E k \in {runge_kutta(Origin, Zero, b.v, b.omega)} :
                    /\ last_op' = "step_callback"
                    /\ odom_msg'.linear_x = b.v
                    /\ odom_msg'.linear_z = b.omega
                    /\ prev_position' = k.position
                    /\ prev_angle' = k.angle]_vars

\* a tick, a change of the radius, a tick
C1_Witness ==
    /\ last_op = "step_callback"
    /\ origin_age = 1
    /\ reset_by = "on_param_changed"
    /\ wheel_radius = Rat(42, 1000)
    /\ left_wheel_sensor = Reading(4)
    /\ prev_left_wheel_ticks = Reading(4)

\* C10: after a tick the stored ticks are the encoder readings of that tick;
\* between a reset and the next tick they are 0; the first tick after a reset
\* (or after construction) takes the readings themselves as the deltas, so
\* that the pose it publishes is the origin displaced by the whole rotation
\* of the wheels: v = r(l + r')/(2 dt), w = r(r' - l)/(L dt), heading
\* r(r' - l)/L, and on a straight line (l = r') x = r*l, y = 0.
C10_FirstTickTakesReadingsAsDeltas ==
    /\ last_op = "step_callback"
            => /\ prev_left_wheel_ticks = left_wheel_sensor
               /\ prev_right_wheel_ticks = right_wheel_sensor
    /\ origin_age = 0
            => /\ prev_left_wheel_ticks = Zero
               /\ prev_right_wheel_ticks = Zero
    /\ origin_age = 1
            => LET sum == RAdd(left_wheel_sensor, right_wheel_sensor)
                   diff == RSub(right_wheel_sensor, left_wheel_sensor)
               IN  /\ odom_msg.linear_x =
                        RDiv(RMul(wheel_radius, sum), Twice(encoder_period_s))
                   /\ odom_msg.linear_z =
                        RDiv(RMul(wheel_radius, diff),
                             RMul(wheel_distance, encoder_period_s))
                   /\ odom_msg.yaw = RDiv(RMul(wheel_radius, diff), wheel_distance)
                   /\ prev_angle = odom_msg.yaw
                   /\ prev_position = <<odom_msg.x, odom_msg.y>>
                   /\ IsZero(diff)
                        => /\ odom_msg.x = RMul(wheel_radius, left_wheel_sensor)
                           /\ odom_msg.y = Zero

\* the first tick after a change of radius, the robot at rest in that tick
\* (readings as at construction), yet the pose away from the origin
C10_Witness ==
    /\ origin_age = 1
    /\ reset_by = "on_param_changed"
    /\ left_wheel_sensor = Reading(2) /\ right_wheel_sensor = Reading(1)
    /\ nsteps = 2
    /\ ~IsZero(odom_msg.x)
    /\ ~IsZero(odom_msg.yaw)

=============================================================================
